---- MODULE Spec2Model ----
(***************************************************************************)
(* Card hierarchy and ordering engine of the MD Divider editor:            *)
(* CardManager (src/src/services/CardManager.ts) and the undo/redo history *)
(* kept by AppProvider (src/src/renderer/contexts/AppContext.tsx).         *)
(*                                                                         *)
(* A card is a record; the store `cards` is the Map<string, Card> of       *)
(* CardManager in insertion order (a JS Map iterates in insertion order    *)
(* and Map.set on an existing key keeps the key's place).  Indices and     *)
(* displayOrder values are 0-based as in the code; At(s, i) reads the      *)
(* i-th element of an array.  Dates (createdAt, updatedAt,                 *)
(* statusUpdatedAt) are wall-clock values and are not modelled.            *)
(***************************************************************************)
EXTENDS Integers, Sequences, FiniteSets, TLC

\* ------------------------------------------------------------------ bounds
MaxCards == 3
MaxOps == 4
MaxLoads == 1
HistOps == 12
HistCards == 2
AttrOps == 3
AttrCards == 1
LoadLoads == 2
LoadOps == 2
JsonSaves == 1
SoundCards == 4
SoundOps == 2

\* The undo stack keeps at most this many snapshots.
UndoLimit == 10

\* parentId === undefined
NoId == 0

\* Depth at which the recursion of getDescendantCards is cut by the engine's
\* call stack (RangeError caught by the method's own try/catch, which returns
\* []).  Any depth above the number of cards gives the exact answer on acyclic
\* stores and more elements than there are cards on cyclic ones, which is all
\* the callers depend on.
StackDepth == MaxCards + 2

\* ------------------------------------------------------------ value domains
Statuses == {"unprocessed", "processing", "processed"}
DisplayAttributes == {"heading", "main", "misc"}
SemanticAttributes == {"none", "text", "figure", "table", "test", "question"}

\* A payload field that is undefined.
Undefined == "undefined"

\* The attribute-specific payload fields of a card.
PayloadFields == {"figureId", "figureData", "tableId", "tableData",
                  "testId", "testPrereq", "testStep", "testCons", "testSpec",
                  "qaId", "question", "answer"}

\* String.prototype.trim on the contents the model uses.
Trim(s) == IF s = " q " THEN "q" ELSE IF s = " " THEN "" ELSE s

Max(a, b) == IF a >= b THEN a ELSE b
Min(a, b) == IF a <= b THEN a ELSE b

\* ------------------------------------------------------------ array helpers
At(s, i) == s[i + 1]

SetAt(s, i, v) == [s EXCEPT ![i + 1] = v]

\* Array.prototype.findIndex(c => c.id === id): -1 when absent.
RECURSIVE FindFrom(_, _, _)
FindFrom(s, id, i) ==
    IF i >= Len(s) THEN -1
    ELSE IF At(s, i).id = id THEN i
    ELSE FindFrom(s, id, i + 1)

FindIndex(s, id) == FindFrom(s, id, 0)

\* Array.prototype.splice(start, deleteCount): normalised start index.
SpliceStart(len, start) ==
    IF start < 0 THEN Max(len + start, 0) ELSE Min(start, len)

\* The elements splice(start, count) removes.
SpliceRemoved(s, start, count) ==
    LET b == SpliceStart(Len(s), start)
        n == Min(Max(count, 0), Len(s) - b)
    IN SubSeq(s, b + 1, b + n)

\* The array left by splice(start, count).
SpliceDelete(s, start, count) ==
    LET b == SpliceStart(Len(s), start)
        n == Min(Max(count, 0), Len(s) - b)
    IN SubSeq(s, 1, b) \o SubSeq(s, b + n + 1, Len(s))

\* The array left by splice(start, 0, ...items).
SpliceInsert(s, start, items) ==
    LET b == SpliceStart(Len(s), start)
    IN SubSeq(s, 1, b) \o items \o SubSeq(s, b + 1, Len(s))

\* Array.prototype.sort((a, b) => a.displayOrder - b.displayOrder): stable.
RECURSIVE InsertSorted(_, _)
InsertSorted(s, c) ==
    IF s = << >> THEN << c >>
    ELSE IF s[Len(s)].displayOrder <= c.displayOrder THEN Append(s, c)
    ELSE Append(InsertSorted(SubSeq(s, 1, Len(s) - 1), c), s[Len(s)])

RECURSIVE SortUpTo(_, _)
SortUpTo(s, n) ==
    IF n = 0 THEN << >> ELSE InsertSorted(SortUpTo(s, n - 1), s[n])

SortByDisplayOrder(s) == SortUpTo(s, Len(s))

\* ------------------------------------------------------------ the card Map
\* Map.has / Map.get / Map.set on the insertion-ordered store.
HasCard(cs, id) == \E k \in 1..Len(cs) : cs[k].id = id

GetCard(cs, id) == cs[CHOOSE k \in 1..Len(cs) : cs[k].id = id]

SetCard(cs, c) ==
    IF HasCard(cs, c.id)
    THEN [k \in 1..Len(cs) |-> IF cs[k].id = c.id THEN c ELSE cs[k]]
    ELSE Append(cs, c)

\* getAllCards({ sortOrder: 'displayOrder', sortDirection: 'asc' })
GetAllCards(cs) == SortByDisplayOrder(cs)

\* --------------------------------------------------------------- CardManager
\* A field of an object literal that may leave it out (undefined).
Field(u, f, default) == IF f \in DOMAIN u THEN u[f] ELSE default

\* createCard(content, position): a root card; `id` is generateId()'s value.
CreateCard(cs, id, content, position) ==
    SetCard(cs, [id |-> id,
                 position |-> position,
                 content |-> Trim(content),
                 originalContent |-> Trim(content),
                 hasChanges |-> FALSE,
                 status |-> "unprocessed",
                 originalPosition |-> position,
                 displayOrder |-> position,
                 displayAttribute |-> "main",
                 semanticAttribute |-> "text",
                 hierarchyLevel |-> 1,
                 parentId |-> NoId]
                @@ [f \in PayloadFields |-> Undefined])

\* Mutant of CreateCardFromData: the hierarchy fields are not restored.
CreateCardFromDataAsRoot(cs, data, fresh) ==
    SetCard(cs, [id |-> Field(data, "id", fresh),
                 position |-> data.position,
                 content |-> Trim(data.content),
                 originalContent |-> Trim(data.originalContent),
                 hasChanges |-> Trim(data.content) # Trim(data.originalContent),
                 status |-> Field(data, "status", "unprocessed"),
                 originalPosition |-> Field(data, "originalPosition", data.position),
                 displayOrder |-> Field(data, "displayOrder", data.position),
                 displayAttribute |-> Field(data, "displayAttribute", "main"),
                 semanticAttribute |-> Field(data, "semanticAttribute", "text"),
                 hierarchyLevel |-> 1,
                 parentId |-> NoId]
                @@ [f \in PayloadFields |-> Field(data, f, Undefined)])

\* createCardFromData(cardData): restores a card, defaulting what is missing.
\* content, position and originalContent are required by the parameter type;
\* `fresh` is generateId()'s value, used when cardData.id is missing.
CreateCardFromData(cs, data, fresh) ==
    SetCard(cs, [id |-> Field(data, "id", fresh),
                 position |-> data.position,
                 content |-> Trim(data.content),
                 originalContent |-> Trim(data.originalContent),
                 hasChanges |-> Trim(data.content) # Trim(data.originalContent),
                 status |-> Field(data, "status", "unprocessed"),
                 originalPosition |-> Field(data, "originalPosition", data.position),
                 displayOrder |-> Field(data, "displayOrder", data.position),
                 displayAttribute |-> Field(data, "displayAttribute", "main"),
                 semanticAttribute |-> Field(data, "semanticAttribute", "text"),
                 hierarchyLevel |-> Field(data, "hierarchyLevel", 1),
                 parentId |-> Field(data, "parentId", NoId)]
                @@ [f \in PayloadFields |-> Field(data, f, Undefined)])

\* The card updateCard(id, updates) stores: { ...card, ...updates } with the
\* content trimmed and hasChanges recomputed when updates.content is given.
UpdatedCard(card, u) ==
    LET merged == [id |-> Field(u, "id", card.id),
                   position |-> Field(u, "position", card.position),
                   content |-> Field(u, "content", card.content),
                   originalContent |-> card.originalContent,
                   hasChanges |-> card.hasChanges,
                   status |-> Field(u, "status", card.status),
                   originalPosition |-> card.originalPosition,
                   displayOrder |-> Field(u, "displayOrder", card.displayOrder),
                   displayAttribute |-> Field(u, "displayAttribute", card.displayAttribute),
                   semanticAttribute |-> Field(u, "semanticAttribute", card.semanticAttribute),
                   hierarchyLevel |-> Field(u, "hierarchyLevel", card.hierarchyLevel),
                   parentId |-> Field(u, "parentId", card.parentId)]
                  @@ [f \in PayloadFields |-> Field(u, f, card[f])]
    IN IF "content" \in DOMAIN u
       THEN [merged EXCEPT !.content = Trim(u.content),
                           !.hasChanges = (Trim(u.content) # card.originalContent)]
       ELSE merged

\* Mutant of UpdateCard: an unknown id is reported as updated.
UpdateCardReportingSuccess(cs, id, u) ==
    IF ~HasCard(cs, id) THEN [ok |-> TRUE, cards |-> cs]
    ELSE [ok |-> TRUE, cards |-> SetCard(cs, UpdatedCard(GetCard(cs, id), u))]

\* updateCard(id, updates): [ok |-> FALSE] is the null result.
UpdateCard(cs, id, u) ==
    IF ~HasCard(cs, id) THEN [ok |-> FALSE, cards |-> cs]
    ELSE [ok |-> TRUE, cards |-> SetCard(cs, UpdatedCard(GetCard(cs, id), u))]

\* The payload fields clearUnusedAttributeFields deletes from the updates
\* again, so that the card keeps them.
KeptPayloadFields(d, s) ==
    IF d # "main" THEN {}
    ELSE IF s = "figure" THEN {"figureId", "figureData"}
    ELSE IF s = "table" THEN {"tableId", "tableData"}
    ELSE IF s = "test" THEN {"testId", "testPrereq", "testStep", "testCons", "testSpec"}
    ELSE IF s = "question" THEN {"qaId", "question", "answer"}
    ELSE {}

\* clearUnusedAttributeFields(updates, displayAttribute, semanticAttribute):
\* every payload field is set to undefined in the updates, then the fields of
\* the new combination are deleted from the updates.
ClearUnusedAttributeFields(updates, d, s) ==
    updates @@ [f \in PayloadFields \ KeptPayloadFields(d, s) |-> Undefined]

\* Mutant of UpdateCardAttribute: no payload field is cleared.
UpdateCardAttributeKeepingPayload(cs, id, d, s) ==
    UpdateCard(cs, id, [displayAttribute |-> d, semanticAttribute |-> s])

\* updateCardAttribute(id, displayAttribute, semanticAttribute)
UpdateCardAttribute(cs, id, d, s) ==
    IF ~HasCard(cs, id) THEN [ok |-> FALSE, cards |-> cs]
    ELSE UpdateCard(cs, id,
             ClearUnusedAttributeFields([displayAttribute |-> d, semanticAttribute |-> s],
                                        d, s))

\* getAllowedSemanticAttributes(displayAttribute)
GetAllowedSemanticAttributes(d) ==
    IF d = "main" THEN {"text", "figure", "table", "test", "question"}
    ELSE {"none"}

\* recalculateDisplayOrder(cards): displayOrder = index for each card of the list.
RECURSIVE RecalcFrom(_, _, _)
RecalcFrom(cs, list, i) ==
    IF i >= Len(list) THEN cs
    ELSE RecalcFrom(SetCard(cs, [At(list, i) EXCEPT !.displayOrder = i]), list, i + 1)

\* Mutant of RecalculateDisplayOrder: the moved card's entry is not renumbered.
RecalculateDisplayOrderButFirst(cs, list) == RecalcFrom(cs, list, 1)

RecalculateDisplayOrder(cs, list) == RecalcFrom(cs, list, 0)

\* getChildCards(parentId)
GetChildCards(cs, parentId) ==
    IF parentId = NoId THEN << >>
    ELSE SortByDisplayOrder(SelectSeq(cs, LAMBDA c : c.parentId = parentId))

\* getDescendantCards(parentId): the children, then each child's descendants;
\* at depth 0 the call stack is exhausted and the catch returns [].
RECURSIVE DescendantsAtDepth(_, _, _)
RECURSIVE DescendantsOfEach(_, _, _, _)
DescendantsOfEach(cs, children, k, depth) ==
    IF k > Len(children) THEN << >>
    ELSE DescendantsAtDepth(cs, children[k].id, depth)
            \o DescendantsOfEach(cs, children, k + 1, depth)

DescendantsAtDepth(cs, parentId, depth) ==
    IF depth = 0 \/ parentId = NoId THEN << >>
    ELSE LET children == GetChildCards(cs, parentId)
         IN children \o DescendantsOfEach(cs, children, 1, depth - 1)

GetDescendantCards(cs, parentId) == DescendantsAtDepth(cs, parentId, StackDepth)

\* getParentCard(cardId): [found |-> FALSE] is undefined.
GetParentCard(cs, cardId) ==
    IF ~HasCard(cs, cardId) \/ GetCard(cs, cardId).parentId = NoId
       \/ ~HasCard(cs, GetCard(cs, cardId).parentId)
    THEN [found |-> FALSE]
    ELSE [found |-> TRUE, card |-> GetCard(cs, GetCard(cs, cardId).parentId)]

\* A descendant shifted by levelDiff, as adjustGroupHierarchy and
\* adjustCardHierarchy store it: never above level 1, parentId cleared at 1.
ShiftedDescendant(descendant, levelDiff) ==
    LET newLevel == Max(1, descendant.hierarchyLevel + levelDiff)
    IN [descendant EXCEPT !.hierarchyLevel = newLevel,
                          !.parentId = IF newLevel = 1 THEN NoId ELSE @]

RECURSIVE ShiftEach(_, _, _, _)
ShiftEach(cs, descendants, k, levelDiff) ==
    IF k > Len(descendants) THEN cs
    ELSE ShiftEach(SetCard(cs, ShiftedDescendant(descendants[k], levelDiff)),
                   descendants, k + 1, levelDiff)

\* Mutant of AdjustGroupHierarchy: the display order of the descendants is
\* shifted along with their level.
AdjustGroupHierarchyShiftingOrder(cs, parentCardId, levelDiff) ==
    IF ~HasCard(cs, parentCardId) THEN cs
    ELSE LET descendants == GetDescendantCards(cs, parentCardId)
             shifted == ShiftEach(cs, descendants, 1, levelDiff)
         IN [k \in 1..Len(shifted) |->
                IF \E j \in 1..Len(descendants) : descendants[j].id = shifted[k].id
                THEN [shifted[k] EXCEPT !.displayOrder = @ + levelDiff]
                ELSE shifted[k]]

\* adjustGroupHierarchy(parentCardId, levelDiff)
AdjustGroupHierarchy(cs, parentCardId, levelDiff) ==
    IF ~HasCard(cs, parentCardId) THEN cs
    ELSE ShiftEach(cs, GetDescendantCards(cs, parentCardId), 1, levelDiff)

\* findParentForLevel(card, targetLevel, allCards, currentIndex): the id of the
\* nearest preceding card of level targetLevel - 1, NoId for null.
RECURSIVE FindParentFrom(_, _, _)
FindParentFrom(targetLevel, allCards, i) ==
    IF i < 0 THEN NoId
    ELSE IF At(allCards, i).hierarchyLevel = targetLevel - 1 THEN At(allCards, i).id
    ELSE IF At(allCards, i).hierarchyLevel < targetLevel - 1 THEN NoId
    ELSE FindParentFrom(targetLevel, allCards, i - 1)

FindParentForLevel(targetLevel, allCards, currentIndex) ==
    IF targetLevel <= 1 THEN NoId
    ELSE FindParentFrom(targetLevel, allCards, currentIndex - 1)

\* The loop of adjustFollowingCardsHierarchy from index i on.
RECURSIVE AdjustFollowingFrom(_, _, _, _, _)
AdjustFollowingFrom(cs, allCards, i, oldLevel, levelDiff) ==
    IF i >= Len(allCards) THEN cs
    ELSE LET followingCard == At(allCards, i)
             adjustedLevel == Max(1, followingCard.hierarchyLevel + levelDiff)
             updatedCard ==
                 [followingCard EXCEPT
                     !.hierarchyLevel = adjustedLevel,
                     !.parentId = IF adjustedLevel = 1 THEN NoId
                                  ELSE FindParentForLevel(adjustedLevel, allCards, i)]
         IN IF followingCard.hierarchyLevel > oldLevel
            THEN AdjustFollowingFrom(SetCard(cs, updatedCard),
                                     SetAt(allCards, i, updatedCard),
                                     i + 1, oldLevel, levelDiff)
            ELSE cs

\* adjustFollowingCardsHierarchy(cardId, oldLevel, newLevel)
AdjustFollowingCardsHierarchy(cs, cardId, oldLevel, newLevel) ==
    LET allCards == GetAllCards(cs)
        cardIndex == FindIndex(allCards, cardId)
    IN IF cardIndex = -1 \/ cardIndex >= Len(allCards) - 1 THEN cs
       ELSE AdjustFollowingFrom(cs, allCards, cardIndex + 1, oldLevel,
                                newLevel - oldLevel)

\* Mutant of IndentCard: the check on the predecessor's level is missing.
IndentCardAnyPredecessor(cs, cardId) ==
    IF ~HasCard(cs, cardId) THEN [ok |-> FALSE, cards |-> cs]
    ELSE
    LET card == GetCard(cs, cardId)
        allCards == GetAllCards(cs)
        currentIndex == FindIndex(allCards, cardId)
    IN IF currentIndex <= 0 THEN [ok |-> FALSE, cards |-> cs]
       ELSE
       LET previousCard == At(allCards, currentIndex - 1)
           oldLevel == card.hierarchyLevel
           newLevel == previousCard.hierarchyLevel + 1
           updated == UpdateCard(cs, cardId,
                          [hierarchyLevel |-> newLevel, parentId |-> previousCard.id]).cards
           grouped == AdjustGroupHierarchy(updated, cardId, newLevel - oldLevel)
       IN [ok |-> TRUE,
           cards |-> AdjustFollowingCardsHierarchy(grouped, cardId, oldLevel, newLevel)]

\* The store at the last notifyListeners() of a successful indentCard(cardId):
\* the one inside its updateCard call, before adjustGroupHierarchy and
\* adjustFollowingCardsHierarchy write.
IndentCardNotified(cs, cardId) ==
    LET previousCard == At(GetAllCards(cs), FindIndex(GetAllCards(cs), cardId) - 1)
    IN UpdateCard(cs, cardId, [hierarchyLevel |-> previousCard.hierarchyLevel + 1,
                               parentId |-> previousCard.id]).cards

\* indentCard(cardId): [ok |-> FALSE] when the method returns false.
IndentCard(cs, cardId) ==
    IF ~HasCard(cs, cardId) THEN [ok |-> FALSE, cards |-> cs]
    ELSE
    LET card == GetCard(cs, cardId)
        allCards == GetAllCards(cs)
        currentIndex == FindIndex(allCards, cardId)
    IN IF currentIndex <= 0 THEN [ok |-> FALSE, cards |-> cs]
       ELSE
       LET previousCard == At(allCards, currentIndex - 1)
           oldLevel == card.hierarchyLevel
           newLevel == previousCard.hierarchyLevel + 1
           updated == UpdateCard(cs, cardId,
                          [hierarchyLevel |-> newLevel, parentId |-> previousCard.id]).cards
           grouped == AdjustGroupHierarchy(updated, cardId, newLevel - oldLevel)
       IN IF previousCard.hierarchyLevel < card.hierarchyLevel - 1
          THEN [ok |-> FALSE, cards |-> cs]
          ELSE [ok |-> TRUE,
                cards |-> AdjustFollowingCardsHierarchy(grouped, cardId, oldLevel, newLevel)]

\* Mutant of OutdentCard: a card of level 1 is not refused.
OutdentCardBelowRoot(cs, cardId) ==
    IF ~HasCard(cs, cardId) THEN [ok |-> FALSE, cards |-> cs]
    ELSE
    LET card == GetCard(cs, cardId)
        parentCard == GetParentCard(cs, cardId)
        oldLevel == card.hierarchyLevel
        newLevel == card.hierarchyLevel - 1
        updated == UpdateCard(cs, cardId,
                       [hierarchyLevel |-> newLevel,
                        parentId |-> IF parentCard.found THEN parentCard.card.parentId
                                     ELSE NoId]).cards
        grouped == AdjustGroupHierarchy(updated, cardId, newLevel - oldLevel)
    IN [ok |-> TRUE,
        cards |-> AdjustFollowingCardsHierarchy(grouped, cardId, oldLevel, newLevel)]

\* Mutant of OutdentCard: the card keeps its parent.
OutdentCardKeepingParent(cs, cardId) ==
    IF ~HasCard(cs, cardId) THEN [ok |-> FALSE, cards |-> cs]
    ELSE
    LET card == GetCard(cs, cardId)
        parentCard == GetParentCard(cs, cardId)
    IN IF card.hierarchyLevel <= 1 \/ ~parentCard.found THEN [ok |-> FALSE, cards |-> cs]
       ELSE
       LET oldLevel == card.hierarchyLevel
           newLevel == card.hierarchyLevel - 1
           updated == UpdateCard(cs, cardId, [hierarchyLevel |-> newLevel]).cards
           grouped == AdjustGroupHierarchy(updated, cardId, newLevel - oldLevel)
       IN [ok |-> TRUE,
           cards |-> AdjustFollowingCardsHierarchy(grouped, cardId, oldLevel, newLevel)]

\* The store at the last notifyListeners() of a successful outdentCard(cardId).
\* (parentCard.parentId; a successful call always has found the parent.)
OutdentCardNotified(cs, cardId) ==
    LET parentCard == GetParentCard(cs, cardId)
    IN UpdateCard(cs, cardId,
           [hierarchyLevel |-> GetCard(cs, cardId).hierarchyLevel - 1,
            parentId |-> IF parentCard.found THEN parentCard.card.parentId
                         ELSE NoId]).cards

\* outdentCard(cardId)
OutdentCard(cs, cardId) ==
    IF ~HasCard(cs, cardId) THEN [ok |-> FALSE, cards |-> cs]
    ELSE
    LET card == GetCard(cs, cardId)
        parentCard == GetParentCard(cs, cardId)
    IN IF card.hierarchyLevel <= 1 \/ ~parentCard.found THEN [ok |-> FALSE, cards |-> cs]
       ELSE
       LET oldLevel == card.hierarchyLevel
           newLevel == card.hierarchyLevel - 1
           updated == UpdateCard(cs, cardId,
                          [hierarchyLevel |-> newLevel,
                           parentId |-> parentCard.card.parentId]).cards
           grouped == AdjustGroupHierarchy(updated, cardId, newLevel - oldLevel)
       IN [ok |-> TRUE,
           cards |-> AdjustFollowingCardsHierarchy(grouped, cardId, oldLevel, newLevel)]

\* determineTargetHierarchyLevel(targetIndex, allCards)
DetermineTargetHierarchyLevel(targetIndex, allCards) ==
    LET hasPrev == targetIndex > 0
        hasNext == targetIndex < Len(allCards)
        prevCard == At(allCards, targetIndex - 1)
        nextCard == At(allCards, targetIndex)
    IN IF hasPrev /\ hasNext
       THEN IF prevCard.hierarchyLevel < nextCard.hierarchyLevel
               /\ nextCard.parentId = prevCard.id
            THEN [level |-> nextCard.hierarchyLevel, parentId |-> prevCard.id]
            ELSE LET targetLevel == Min(prevCard.hierarchyLevel, nextCard.hierarchyLevel)
                 IN IF targetLevel = 1
                    THEN [level |-> 1, parentId |-> NoId]
                    ELSE [level |-> targetLevel,
                          parentId |-> IF prevCard.hierarchyLevel = targetLevel
                                       THEN prevCard.parentId
                                       ELSE nextCard.parentId]
       ELSE IF hasPrev
       THEN [level |-> prevCard.hierarchyLevel, parentId |-> prevCard.parentId]
       ELSE IF hasNext
       THEN [level |-> nextCard.hierarchyLevel, parentId |-> nextCard.parentId]
       ELSE [level |-> 1, parentId |-> NoId]

\* Mutant of AdjustCardHierarchy: the descendants are not shifted.
AdjustCardHierarchyCardOnly(cs, card, newLevel, newParentId) ==
    [card |-> [card EXCEPT !.hierarchyLevel = newLevel, !.parentId = newParentId],
     cards |-> cs]

\* adjustCardHierarchy(card, newLevel, newParentId): the returned card (not yet
\* stored) and the store with the card's descendants shifted.
AdjustCardHierarchy(cs, card, newLevel, newParentId) ==
    [card |-> [card EXCEPT !.hierarchyLevel = newLevel, !.parentId = newParentId],
     cards |-> ShiftEach(cs, GetDescendantCards(cs, card.id), 1,
                         newLevel - card.hierarchyLevel)]

\* getCardGroupForMove(cardId): [card, ...descendants], [] for an unknown id.
GetCardGroupForMove(cs, cardId) ==
    IF ~HasCard(cs, cardId) THEN << >>
    ELSE << GetCard(cs, cardId) >> \o GetDescendantCards(cs, cardId)

\* The forEach of moveCardGroupToPosition that refreshes the descendants'
\* entries of allCards from the store.
RECURSIVE RefreshEach(_, _, _, _)
RefreshEach(cs, allCards, descendants, k) ==
    IF k > Len(descendants) THEN allCards
    ELSE LET descendantIndex == FindIndex(allCards, descendants[k].id)
         IN RefreshEach(cs,
                IF descendantIndex # -1 /\ HasCard(cs, descendants[k].id)
                THEN SetAt(allCards, descendantIndex, GetCard(cs, descendants[k].id))
                ELSE allCards,
                descendants, k + 1)

\* moveCardGroupToPosition(cardId, targetIndex)
MoveCardGroupToPosition(cs, cardId, targetIndex) ==
    LET cardGroup == GetCardGroupForMove(cs, cardId)
        sorted == GetAllCards(cs)
        currentIndex == FindIndex(sorted, cardId)
    IN IF Len(cardGroup) = 0 \/ currentIndex = -1
          \/ targetIndex < 0 \/ targetIndex > Len(sorted)
       THEN [ok |-> FALSE, cards |-> cs]
       ELSE
       LET hierarchyInfo == DetermineTargetHierarchyLevel(targetIndex, sorted)
           movedGroup == SpliceRemoved(sorted, currentIndex, Len(cardGroup))
           removed == SpliceDelete(sorted, currentIndex, Len(cardGroup))
           adjustedTargetIndex == IF targetIndex > currentIndex
                                  THEN targetIndex - Len(cardGroup)
                                  ELSE targetIndex
           inserted == SpliceInsert(removed, adjustedTargetIndex, movedGroup)
           adjusted == AdjustCardHierarchy(cs, movedGroup[1], hierarchyInfo.level,
                                           hierarchyInfo.parentId)
           movedCardIndex == FindIndex(inserted, cardId)
           withMoved == SetAt(inserted, movedCardIndex, adjusted.card)
           allCards == RefreshEach(adjusted.cards, withMoved,
                                   GetDescendantCards(adjusted.cards, cardId), 1)
       IN [ok |-> TRUE, cards |-> RecalculateDisplayOrder(adjusted.cards, allCards)]

\* Mutant of MoveCardToPosition: a target out of range is moved into range.
MoveCardToPositionClamped(cs, cardId, targetIndex) ==
    MoveCardGroupToPosition(cs, cardId, Max(0, Min(targetIndex, Len(cs))))

\* moveCardToPosition(cardId, targetIndex)
MoveCardToPosition(cs, cardId, targetIndex) ==
    MoveCardGroupToPosition(cs, cardId, targetIndex)

\* moveCardWithHierarchyIntegrity(cardId, direction)
MoveCardWithHierarchyIntegrity(cs, cardId, direction) ==
    LET cardGroup == GetCardGroupForMove(cs, cardId)
        allCards == GetAllCards(cs)
        currentIndex == FindIndex(allCards, cardId)
    IN IF Len(cardGroup) = 0 \/ currentIndex = -1 THEN [ok |-> FALSE, cards |-> cs]
       ELSE IF direction = "up" /\ currentIndex > 0
       THEN LET checkIndex == currentIndex - 1
                prevDescendants == GetDescendantCards(cs, At(allCards, checkIndex).id)
            IN MoveCardGroupToPosition(cs, cardId, checkIndex - Len(prevDescendants))
       ELSE IF direction = "down" /\ currentIndex + Len(cardGroup) < Len(allCards)
       THEN LET checkIndex == currentIndex + Len(cardGroup)
                nextDescendants == GetDescendantCards(cs, At(allCards, checkIndex).id)
                targetIndex == checkIndex + 1 + Len(nextDescendants)
            IN MoveCardGroupToPosition(cs, cardId, Min(targetIndex, Len(allCards)))
       ELSE [ok |-> FALSE, cards |-> cs]

\* moveCard(cardId, direction)
MoveCard(cs, cardId, direction) == MoveCardWithHierarchyIntegrity(cs, cardId, direction)

\* ---------------------------------------------------------------- AppProvider
VARIABLES
    cards,      \* cardManager.cards, in insertion order
    undoStack,  \* undoStack.current: snapshots, oldest first
    redoStack,  \* redoStack.current
    pending,    \* "file" while loadFile awaits readFile, else "none"
    nextId,     \* the next id generateId() hands out
    ops,        \* handler calls that changed the state so far
    loads,      \* loadFile and loadJsonFile calls so far
    savedFiles, \* the documents saveJson wrote, oldest first
    currentFile, \* state.currentFile: "" is null
    stateCards, \* state.cards: the visible card list
    beforeLoad, \* the store and the stacks when the last load was called
    last        \* the last handler call: what it was, its result, the store before it

vars == << cards, undoStack, redoStack, pending, nextId, ops, loads, savedFiles,
          currentFile, stateCards, beforeLoad, last >>

\* cloneCards(cards): a copy of each card with its dates cloned.
CloneCards(list) == [k \in 1..Len(list) |-> list[k]]

\* The snapshot every handler takes before it acts.
TakeSnapshot(cs) == CloneCards(GetAllCards(cs))

\* Mutant of PushUndo: the overflow check is missing.
PushUndoUncapped(stack, snapshot) == Append(stack, snapshot)

\* undoStack.current.push(snapshot); if (length > 10) shift()
PushUndo(stack, snapshot) ==
    LET pushed == Append(stack, snapshot)
    IN IF Len(pushed) > UndoLimit THEN Tail(pushed) ELSE pushed

\* restoreCards(cards): clear(), then createCardFromData for each card.
RECURSIVE RestoreFrom(_, _, _, _)
RestoreFrom(cs, snapshot, k, fresh) ==
    IF k > Len(snapshot) THEN cs
    ELSE RestoreFrom(CreateCardFromData(cs, snapshot[k], fresh), snapshot, k + 1, fresh)

\* Mutant of RestoreCards: the first card of the snapshot is not recreated.
RestoreCardsButFirst(snapshot, fresh) == RestoreFrom(<< >>, snapshot, 2, fresh)

RestoreCards(snapshot, fresh) == RestoreFrom(<< >>, snapshot, 1, fresh)

Mutations == {"updateCard", "updateCardAttribute", "indentCard", "outdentCard",
              "moveCard", "moveCardToPosition"}

\* A call that failed changed nothing but `last`; the calls that could follow
\* it are those that could follow the state before it, which are explored from
\* there, so the model does not continue from a failed call.
Settled == last.ok \/ last.op \in {"loadFile", "loadJsonFile"}

Record(op, id, dir, target, ok) ==
    [op |-> op, id |-> id, dir |-> dir, target |-> target, ok |-> ok,
     pre |-> cards, undoLen |-> Len(undoStack), redoLen |-> Len(redoStack),
     prevOp |-> last.op, prevOk |-> last.ok]

\* updateCard and recalculateDisplayOrder notify after their last write, so
\* for every call but indentCard and outdentCard it is the final store.
LastNotified(op, before, id, final) ==
    CASE op = "indentCard" -> IndentCardNotified(before, id)
      [] op = "outdentCard" -> OutdentCardNotified(before, id)
      [] OTHER -> final

\* updateCardsList(): the cards of the store in display order.  The filter
\* stays the initial empty filter and no card is collapsed.
UpdateCardsList(cs) == GetAllCards(cs)

\* state.cards after a mutating handler: what the listener dispatched at the
\* call's last notification; a failed call notifies nobody.
StateCardsAfter(op, id, res) ==
    IF res.ok THEN UpdateCardsList(LastNotified(op, cards, id, res.cards))
    ELSE stateCards

\* Mutant of Mutate: the redo stack is kept.
MutateKeepingRedo(budget, op, id, dir, target, res) ==
    /\ ops < budget
    /\ Settled
    /\ cards' = res.cards
    /\ stateCards' = StateCardsAfter(op, id, res)
    /\ IF res.ok
       THEN /\ undoStack' = PushUndo(undoStack, TakeSnapshot(cards))
            /\ ops' = ops + 1
       ELSE UNCHANGED << undoStack, ops >>
    /\ UNCHANGED redoStack
    /\ UNCHANGED beforeLoad
    /\ last' = Record(op, id, dir, target, res.ok)
    /\ UNCHANGED << pending, nextId, loads, savedFiles, currentFile >>

\* Mutant of Mutate: the redo stack is emptied whether or not the call
\* succeeded.
MutateClearingRedoFirst(budget, op, id, dir, target, res) ==
    /\ ops < budget
    /\ Settled
    /\ cards' = res.cards
    /\ stateCards' = StateCardsAfter(op, id, res)
    /\ IF res.ok
       THEN /\ undoStack' = PushUndo(undoStack, TakeSnapshot(cards))
            /\ ops' = ops + 1
       ELSE UNCHANGED << undoStack, ops >>
    /\ redoStack' = << >>
    /\ UNCHANGED beforeLoad
    /\ last' = Record(op, id, dir, target, res.ok)
    /\ UNCHANGED << pending, nextId, loads, savedFiles, currentFile >>

\* The common body of updateCard, updateCardAttribute, moveCard,
\* moveCardToPosition, indentCard and outdentCard of AppProvider: snapshot, call
\* the CardManager, and on success push the snapshot and clear the redo stack.
Mutate(budget, op, id, dir, target, res) ==
    /\ ops < budget
    /\ Settled
    /\ cards' = res.cards
    /\ stateCards' = StateCardsAfter(op, id, res)
    /\ IF res.ok
       THEN /\ undoStack' = PushUndo(undoStack, TakeSnapshot(cards))
            /\ redoStack' = << >>
            /\ ops' = ops + 1
       ELSE UNCHANGED << undoStack, redoStack, ops >>
    /\ UNCHANGED beforeLoad
    /\ last' = Record(op, id, dir, target, res.ok)
    /\ UNCHANGED << pending, nextId, loads, savedFiles, currentFile >>

\* Mutant of UndoWithin: the restored snapshot stays on the undo stack.
UndoWithinKeepingSnapshot(budget) ==
    /\ ops < budget
    /\ Settled
    /\ IF Len(undoStack) = 0
       THEN UNCHANGED << cards, undoStack, redoStack, ops, stateCards >>
       ELSE /\ redoStack' = Append(redoStack, TakeSnapshot(cards))
            /\ UNCHANGED undoStack
            /\ cards' = RestoreCards(undoStack[Len(undoStack)], nextId)
            /\ stateCards' = UpdateCardsList(RestoreCards(undoStack[Len(undoStack)], nextId))
            /\ ops' = ops + 1
    /\ UNCHANGED beforeLoad
    /\ last' = Record("undo", NoId, "", -1, Len(undoStack) # 0)
    /\ UNCHANGED << pending, nextId, loads, savedFiles, currentFile >>

\* undo()
UndoWithin(budget) ==
    /\ ops < budget
    /\ Settled
    /\ IF Len(undoStack) = 0
       THEN UNCHANGED << cards, undoStack, redoStack, ops, stateCards >>
       ELSE /\ redoStack' = Append(redoStack, TakeSnapshot(cards))
            /\ undoStack' = SubSeq(undoStack, 1, Len(undoStack) - 1)
            /\ cards' = RestoreCards(undoStack[Len(undoStack)], nextId)
            /\ stateCards' = UpdateCardsList(RestoreCards(undoStack[Len(undoStack)], nextId))
            /\ ops' = ops + 1
    /\ UNCHANGED beforeLoad
    /\ last' = Record("undo", NoId, "", -1, Len(undoStack) # 0)
    /\ UNCHANGED << pending, nextId, loads, savedFiles, currentFile >>

\* redo()
RedoWithin(budget) ==
    /\ ops < budget
    /\ Settled
    /\ IF Len(redoStack) = 0
       THEN UNCHANGED << cards, undoStack, redoStack, ops, stateCards >>
       ELSE /\ undoStack' = PushUndo(undoStack, TakeSnapshot(cards))
            /\ redoStack' = SubSeq(redoStack, 1, Len(redoStack) - 1)
            /\ cards' = RestoreCards(redoStack[Len(redoStack)], nextId)
            /\ stateCards' = UpdateCardsList(RestoreCards(redoStack[Len(redoStack)], nextId))
            /\ ops' = ops + 1
    /\ UNCHANGED beforeLoad
    /\ last' = Record("redo", NoId, "", -1, Len(redoStack) # 0)
    /\ UNCHANGED << pending, nextId, loads, savedFiles, currentFile >>

\* loadFile up to its await: both stacks are emptied before the file is read.
OnLoadFileBegin ==
    /\ pending = "none"
    /\ loads < MaxLoads
    /\ undoStack' = << >>
    /\ redoStack' = << >>
    /\ pending' = "file"
    /\ loads' = loads + 1
    /\ beforeLoad' = [cards |-> cards, undoStack |-> undoStack, redoStack |-> redoStack]
    /\ last' = Record("loadFileBegin", NoId, "", -1, TRUE)
    /\ UNCHANGED << cards, nextId, ops, savedFiles, currentFile, stateCards >>

\* The paragraphs of splitIntoParagraphs become cards at positions 0..n-1.
RECURSIVE CreateParagraphs(_, _, _, _)
CreateParagraphs(cs, first, n, position) ==
    IF position >= n THEN cs
    ELSE CreateParagraphs(CreateCard(cs, first + position, "p", position),
                          first, n, position + 1)

\* loadFile after the await, the file read and valid: clear(), then createCard
\* for each of the n paragraphs.
LoadFileLoaded(n) ==
    /\ pending = "file"
    /\ cards' = CreateParagraphs(<< >>, nextId, n, 0)
    /\ stateCards' = UpdateCardsList(CreateParagraphs(<< >>, nextId, n, 0))
    /\ nextId' = nextId + n
    /\ pending' = "none"
    /\ currentFile' = "file"
    /\ UNCHANGED beforeLoad
    /\ last' = Record("loadFile", NoId, "", n, TRUE)
    /\ UNCHANGED << undoStack, redoStack, ops, loads, savedFiles >>

\* loadFile after the await, the file unreadable or invalid.
OnLoadFileFailed ==
    /\ pending = "file"
    /\ pending' = "none"
    /\ UNCHANGED beforeLoad
    /\ last' = Record("loadFile", NoId, "", -1, FALSE)
    /\ UNCHANGED << cards, undoStack, redoStack, nextId, ops, loads, savedFiles,
                    currentFile, stateCards >>

\* ------------------------------------------------------------------- inputs
\* Ids a caller may pass: every id handed out so far and one that never was.
IdInputs == 1..nextId

UpdateInputs == {[content |-> " q "], [content |-> "p"], [status |-> "processed"]}

AttributeInputs == {<< "heading", "none" >>, << "main", "figure" >>}

OnLoadFileLoaded == \E n \in 0..MaxCards : LoadFileLoaded(n)

OnUpdateCard ==
    \E id \in IdInputs, u \in UpdateInputs :
        Mutate(MaxOps, "updateCard", id, "", -1, UpdateCard(cards, id, u))

OnUpdateCardAttribute ==
    \E id \in IdInputs, a \in AttributeInputs :
        Mutate(MaxOps, "updateCardAttribute", id, "", -1,
               UpdateCardAttribute(cards, id, a[1], a[2]))

OnIndentCard ==
    \E id \in IdInputs :
        Mutate(MaxOps, "indentCard", id, "", -1, IndentCard(cards, id))

OnOutdentCard ==
    \E id \in IdInputs :
        Mutate(MaxOps, "outdentCard", id, "", -1, OutdentCard(cards, id))

OnMoveCard ==
    \E id \in IdInputs, dir \in {"up", "down"} :
        Mutate(MaxOps, "moveCard", id, dir, -1, MoveCard(cards, id, dir))

OnMoveCardToPosition ==
    \E id \in IdInputs, t \in -1..(Len(cards) + 1) :
        Mutate(MaxOps, "moveCardToPosition", id, "", t, MoveCardToPosition(cards, id, t))

OnUndo == UndoWithin(MaxOps)

OnRedo == RedoWithin(MaxOps)

Init ==
    /\ cards = << >>
    /\ undoStack = << >>
    /\ redoStack = << >>
    /\ pending = "none"
    /\ nextId = 1
    /\ ops = 0
    /\ loads = 0
    /\ savedFiles = << >>
    /\ currentFile = ""
    /\ stateCards = << >>
    /\ beforeLoad = [cards |-> << >>, undoStack |-> << >>, redoStack |-> << >>]
    /\ last = [op |-> "init", id |-> NoId, dir |-> "", target |-> -1, ok |-> TRUE,
               pre |-> << >>, undoLen |-> 0, redoLen |-> 0,
               prevOp |-> "init", prevOk |-> TRUE]

Next ==
    \/ OnLoadFileBegin
    \/ OnLoadFileLoaded
    \/ OnLoadFileFailed
    \/ OnUpdateCard
    \/ OnUpdateCardAttribute
    \/ OnIndentCard
    \/ OnOutdentCard
    \/ OnMoveCard
    \/ OnMoveCardToPosition
    \/ OnUndo
    \/ OnRedo

Spec == Init /\ [][Next]_vars

\* ------------------------------------------------------ structural predicates
\* The parent link of the card with this id, NoId when the id is not a card.
ParentOf(cs, id) == IF HasCard(cs, id) THEN GetCard(cs, id).parentId ELSE NoId

\* The card reached from id by following n parentId links (NoId past a root).
RECURSIVE AncestorAt(_, _, _)
AncestorAt(cs, id, n) ==
    IF n = 0 \/ id = NoId THEN id ELSE AncestorAt(cs, ParentOf(cs, id), n - 1)

\* The ids reached from id by following one or more parentId links.
AncestorsOf(cs, id) == {AncestorAt(cs, id, n) : n \in 1..Len(cs)} \ {NoId}

\* The ids of the cards from which following parentId links reaches id.
DescendantIds(cs, id) == {cs[k].id : k \in {j \in 1..Len(cs) : id \in AncestorsOf(cs, cs[j].id)}}

OrderIsPermutation(cs) ==
    /\ \A k \in 1..Len(cs) : cs[k].displayOrder \in 0..(Len(cs) - 1)
    /\ \A j, k \in 1..Len(cs) : j # k => cs[j].displayOrder # cs[k].displayOrder

LevelMatchesParent(cs) ==
    \A k \in 1..Len(cs) : (cs[k].hierarchyLevel = 1) <=> (cs[k].parentId = NoId)

ParentIsOneLevelUp(cs) ==
    \A k \in 1..Len(cs) :
        cs[k].parentId # NoId =>
            /\ HasCard(cs, cs[k].parentId)
            /\ cs[k].hierarchyLevel = GetCard(cs, cs[k].parentId).hierarchyLevel + 1

SubtreesContiguous(cs) ==
    \A k \in 1..Len(cs) :
        LET ds == DescendantIds(cs, cs[k].id)
        IN {GetCard(cs, d).displayOrder : d \in ds}
              = (cs[k].displayOrder + 1)..(cs[k].displayOrder + Cardinality(ds))

NoCycles(cs) ==
    \A k \in 1..Len(cs) :
        /\ cs[k].id \notin AncestorsOf(cs, cs[k].id)
        /\ AncestorAt(cs, cs[k].id, Len(cs)) = NoId

C2_LevelIffNoParent == LevelMatchesParent(cards)

\* C3: in every reachable state every parentId names a card of the store whose
\* hierarchyLevel is one less than the child's.
C3_ParentOneLevelUp == ParentIsOneLevelUp(cards)

\* C4: in every reachable state the descendants of every card occupy exactly
\* the displayOrder positions right after the card.
C4_SubtreeContiguity == SubtreesContiguous(cards)

\* C5: in every reachable state following parentId links from any card ends at
\* a root: no card is its own parent or ancestor.
C5_NoCycles == NoCycles(cards)

\* ---------------------------------------------------- the history, run longer
\* The same handlers on a document of HistCards paragraphs, with a budget that
\* lets the undo stack overflow.
HistLoadFileLoaded == LoadFileLoaded(HistCards)

HistIndentCard ==
    \E id \in IdInputs :
        Mutate(HistOps, "indentCard", id, "", -1, IndentCard(cards, id))

HistOutdentCard ==
    \E id \in IdInputs :
        Mutate(HistOps, "outdentCard", id, "", -1, OutdentCard(cards, id))

HistMoveCard ==
    \E id \in IdInputs, dir \in {"up", "down"} :
        Mutate(HistOps, "moveCard", id, dir, -1, MoveCard(cards, id, dir))

HistUndo == UndoWithin(HistOps)

HistRedo == RedoWithin(HistOps)

NextHist ==
    \/ OnLoadFileBegin
    \/ HistLoadFileLoaded
    \/ OnLoadFileFailed
    \/ HistIndentCard
    \/ HistOutdentCard
    \/ HistMoveCard
    \/ HistUndo
    \/ HistRedo

SpecHist == Init /\ [][NextHist]_vars

\* --------------------------------------------------------- history predicates
\* Two stores hold the same cards: the same ids, and for every card the same
\* content, displayOrder, hierarchyLevel and parentId.
Observed(cs) ==
    {[id |-> cs[k].id, content |-> cs[k].content, displayOrder |-> cs[k].displayOrder,
      hierarchyLevel |-> cs[k].hierarchyLevel, parentId |-> cs[k].parentId]
        : k \in 1..Len(cs)}

SameCards(a, b) == Len(a) = Len(b) /\ Observed(a) = Observed(b)

\* C6: a successful mutation followed at once by undo() leaves the store with
\* the cards (ids, content, displayOrder, hierarchyLevel, parentId) it had
\* before the mutation.
C6_UndoRestoresPreState ==
    [][(last.op \in Mutations /\ last.ok /\ last'.op = "undo")
          => (last'.ok /\ SameCards(cards', last.pre))]_vars

C6_Witness ==
    /\ last.op = "undo" /\ last.ok
    /\ last.prevOp \in Mutations /\ last.prevOk
    /\ ~SameCards(cards, last.pre)

\* C7: undo() followed at once by redo() leaves the store with the cards it had
\* before the undo and both stacks with the lengths they had before the undo.
C7_UndoRedoRoundTrip ==
    [][(last.op = "undo" /\ last.ok /\ last'.op = "redo")
          => /\ last'.ok
             /\ SameCards(cards', last.pre)
             /\ Len(undoStack') = last.undoLen
             /\ Len(redoStack') = last.redoLen]_vars

C7_Witness ==
    /\ last.op = "redo" /\ last.ok
    /\ last.prevOp = "undo" /\ last.prevOk
    /\ ~SameCards(cards, last.pre)
    /\ Len(undoStack) = UndoLimit

\* C8: the undo stack never holds more than 10 snapshots; a successful
\* mutation or redo on a full stack drops the oldest snapshot and keeps the
\* other nine, in order, below the new one.
C8_UndoStackCapped ==
    /\ [](Len(undoStack) <= UndoLimit)
    /\ [][(Len(undoStack) = UndoLimit /\ last'.ok
            /\ last'.op \in Mutations \cup {"redo"})
          => /\ Len(undoStack') = UndoLimit
             /\ SubSeq(undoStack', 1, UndoLimit - 1) = Tail(undoStack)
             /\ SameCards(undoStack'[UndoLimit], cards)]_vars

C8_Witness ==
    /\ last.ok /\ last.op \in Mutations \cup {"redo"}
    /\ last.undoLen = UndoLimit
    /\ Len(undoStack) = UndoLimit

\* C9: right after a successful mutation the redo stack is empty, and redo()
\* on an empty redo stack changes neither the store nor the stacks.
C9_MutationClearsRedo ==
    /\ []((last.op \in Mutations /\ last.ok) => Len(redoStack) = 0)
    /\ [][(Len(redoStack) = 0 /\ last'.op = "redo")
          => (~last'.ok /\ UNCHANGED << cards, undoStack, redoStack >>)]_vars

C9_Witness == last.op \in Mutations /\ last.ok /\ last.redoLen > 0

\* C10: when indent(id) returns true the card's parentId is the id of the card
\* that was right before it in display order before the call, and its
\* hierarchyLevel is that card's hierarchyLevel (before the call) plus 1.
C10_IndentUnderPredecessor ==
    (last.op = "indentCard" /\ last.ok) =>
        LET before == SortByDisplayOrder(last.pre)
            predecessor == At(before, FindIndex(before, last.id) - 1)
        IN /\ GetCard(cards, last.id).parentId = predecessor.id
           /\ GetCard(cards, last.id).hierarchyLevel = predecessor.hierarchyLevel + 1

\* -------------------------------------------------- indent, outdent and moves
\* The level and the parent link of a card in a store.
LevelOf(cs, id) == GetCard(cs, id).hierarchyLevel

\* The ids of a store in display order.
OrderOfIds(cs) == [k \in 1..Len(cs) |-> SortByDisplayOrder(cs)[k].id]

\* The display index (from 0) of a card in a store, -1 when it is not there.
IndexOf(cs, id) == FindIndex(SortByDisplayOrder(cs), id)

\* Every card has the same displayOrder, hierarchyLevel and parentId in both
\* stores.
SameStructure(a, b) ==
    /\ Len(a) = Len(b)
    /\ {<< a[k].id, a[k].displayOrder, a[k].hierarchyLevel, a[k].parentId >> : k \in 1..Len(a)}
         = {<< b[k].id, b[k].displayOrder, b[k].hierarchyLevel, b[k].parentId >> : k \in 1..Len(b)}

\* C11: when indent(id) returns true and changes the level of the card by
\* delta, every card that was a descendant of id before the call is a
\* descendant of id after it and its level has changed by exactly delta.
C11_IndentShiftsSubtreeOnce ==
    (last.op = "indentCard" /\ last.ok) =>
        LET delta == LevelOf(cards, last.id) - LevelOf(last.pre, last.id)
        IN \A d \in DescendantIds(last.pre, last.id) :
              /\ d \in DescendantIds(cards, last.id)
              /\ LevelOf(cards, d) = LevelOf(last.pre, d) + delta

\* The card right before this one in display order (the card must not be first).
PredecessorOf(cs, id) == At(SortByDisplayOrder(cs), IndexOf(cs, id) - 1)

\* indent(id) is at one of its boundaries: the card is first in display order,
\* or the card before it is more than one level shallower.
IndentRefused(cs, id) ==
    /\ HasCard(cs, id)
    /\ \/ IndexOf(cs, id) = 0
       \/ PredecessorOf(cs, id).hierarchyLevel < LevelOf(cs, id) - 1

\* C12: indent(id) returns false and leaves every card as it was when id is
\* the first card in display order or the card before it is more than one
\* level shallower than id.
C12_IndentRefusedAtBoundary ==
    (last.op = "indentCard" /\ IndentRefused(last.pre, last.id))
        => (~last.ok /\ cards = last.pre)

C12_Witness ==
    /\ last.op = "indentCard" /\ ~last.ok
    /\ HasCard(last.pre, last.id)
    /\ IndexOf(last.pre, last.id) > 0
    /\ PredecessorOf(last.pre, last.id).hierarchyLevel < LevelOf(last.pre, last.id) - 1

\* C13: when outdent(id) returns true the card is one level up, its parentId is
\* the parentId its former parent had, and that parentId is undefined exactly
\* when the new level is 1.
C13_OutdentToGrandparent ==
    (last.op = "outdentCard" /\ last.ok) =>
        LET formerParent == GetCard(last.pre, GetCard(last.pre, last.id).parentId)
            after == GetCard(cards, last.id)
        IN /\ after.hierarchyLevel = LevelOf(last.pre, last.id) - 1
           /\ after.parentId = formerParent.parentId
           /\ (after.parentId = NoId) <=> (after.hierarchyLevel = 1)

\* C14: outdent(id) on a card of level 1 returns false and leaves every card as
\* it was.
C14_OutdentRefusedAtRoot ==
    (last.op = "outdentCard" /\ HasCard(last.pre, last.id)
        /\ LevelOf(last.pre, last.id) = 1)
        => (~last.ok /\ cards = last.pre)

C14_Witness ==
    /\ last.op = "outdentCard" /\ ~last.ok
    /\ HasCard(last.pre, last.id) /\ LevelOf(last.pre, last.id) = 1
    /\ Len(cards) > 1

IdsOf(cs) == {cs[k].id : k \in 1..Len(cs)}

\* A card and the cards from which parentId links lead to it.
BlockOf(cs, id) == {id} \cup DescendantIds(cs, id)

OrderOf(cs, id) == GetCard(cs, id).displayOrder

\* From the store `before` to the store `after` the cards of `up` have moved
\* to lower displayOrder by n, the cards of `down` to higher displayOrder by m,
\* and every other card has kept its displayOrder.
Exchanged(before, after, up, n, down, m) ==
    /\ IdsOf(after) = IdsOf(before)
    /\ \A c \in IdsOf(before) :
          OrderOf(after, c) = IF c \in down THEN OrderOf(before, c) + m
                              ELSE IF c \in up THEN OrderOf(before, c) - n
                              ELSE OrderOf(before, c)

\* C16: a successful moveCard(id, 'down') puts the block of id and its
\* descendants right after the group that followed it (the next card and that
\* card's descendants): that group moves up by the size of the block, the
\* block moves down by the size of the group, every other card stays.
C16_MoveDownPastNextGroup ==
    (last.op = "moveCard" /\ last.dir = "down" /\ last.ok) =>
        LET before == SortByDisplayOrder(last.pre)
            block == BlockOf(last.pre, last.id)
            nextIndex == OrderOf(last.pre, last.id) + Cardinality(block)
        IN \E k \in 1..Len(before) :
              /\ k = nextIndex + 1
              /\ LET group == BlockOf(last.pre, before[k].id)
                 IN /\ group \cap block = {}
                    /\ Exchanged(last.pre, cards, group, Cardinality(block),
                                 block, Cardinality(group))

\* C17: a successful moveCard(id, 'up') moves the block of id and its
\* descendants past one card and that card's descendants, which sat right
\* before the block; every other card stays.
C17_MoveUpPastOneSubtree ==
    (last.op = "moveCard" /\ last.dir = "up" /\ last.ok) =>
        LET block == BlockOf(last.pre, last.id)
            start == OrderOf(last.pre, last.id)
        IN \E c \in IdsOf(last.pre) :
              LET passed == BlockOf(last.pre, c)
              IN /\ passed \cap block = {}
                 /\ {OrderOf(last.pre, d) : d \in passed}
                       = (start - Cardinality(passed))..(start - 1)
                 /\ Exchanged(last.pre, cards, block, Cardinality(passed),
                              passed, Cardinality(block))

\* The highest displayOrder among the cards of a set.
LastOrderOf(cs, ids) ==
    CHOOSE n \in {OrderOf(cs, c) : c \in ids} :
        \A c \in ids : OrderOf(cs, c) <= n

\* moveCard(id, direction) is at a boundary of the list: up from the first
\* position, or down with the block of id ending at the last position.
MoveRefused(cs, id, direction) ==
    /\ HasCard(cs, id)
    /\ \/ direction = "up" /\ IndexOf(cs, id) = 0
       \/ direction = "down" /\ LastOrderOf(cs, BlockOf(cs, id)) = Len(cs) - 1

\* C18: moveCard(id, 'up') on the first card in display order, and
\* moveCard(id, 'down') on a card whose block ends at the last display
\* position, return false and leave every card as it was.
C18_MoveRefusedAtBoundary ==
    (last.op = "moveCard" /\ MoveRefused(last.pre, last.id, last.dir))
        => (~last.ok /\ cards = last.pre)

\* The ids of a set in the display order of a store.
OrderedWithin(cs, ids) ==
    SelectSeq(OrderOfIds(cs), LAMBDA c : c \in ids)

\* C19: a successful moveCard or moveCardToPosition leaves the moved card with
\* the descendants it had, in the relative display order they had, and with
\* no other card between the moved card and them.
C19_MoveKeepsSubtree ==
    (last.op \in {"moveCard", "moveCardToPosition"} /\ last.ok) =>
        LET ds == DescendantIds(last.pre, last.id)
        IN /\ DescendantIds(cards, last.id) = ds
           /\ OrderedWithin(cards, ds) = OrderedWithin(last.pre, ds)
           /\ {OrderOf(cards, d) : d \in ds}
                 = (OrderOf(cards, last.id) + 1)..(OrderOf(cards, last.id) + Cardinality(ds))

\* C20: moveCardToPosition(id, t) with t the display index of the card returns
\* true and leaves the displayOrder, hierarchyLevel and parentId of every card
\* as they were.
C20_MoveToOwnIndex ==
    (last.op = "moveCardToPosition" /\ HasCard(last.pre, last.id)
        /\ last.target = IndexOf(last.pre, last.id))
        => (last.ok /\ SameStructure(cards, last.pre))

\* C21: moveCardToPosition(id, t) with t below 0 or above the number of cards
\* returns false and leaves every card as it was.
C21_MoveToPositionOutOfRange ==
    (last.op = "moveCardToPosition"
        /\ (last.target < 0 \/ last.target > Len(last.pre)))
        => (~last.ok /\ cards = last.pre)

C21_Witness ==
    /\ last.op = "moveCardToPosition" /\ ~last.ok
    /\ HasCard(last.pre, last.id)
    /\ last.target > Len(last.pre)
    /\ Len(cards) > 1

\* ------------------------------------------------- attributes and payloads
\* The same handlers on a document of AttrCards paragraphs: updateCard with
\* payload fields (the detail inputs of CardItem) and updateCardAttribute with
\* every pair of a display and a semantic attribute.  The pair of the call is
\* recorded in the `dir` field of `last`.
FigureFields == {"figureId", "figureData"}
TableFields == {"tableId", "tableData"}
TestFields == {"testId", "testPrereq", "testStep", "testCons", "testSpec"}
QaFields == {"qaId", "question", "answer"}

PayloadInputs ==
    {[f \in group |-> "v"] :
        group \in {FigureFields, TableFields, TestFields, QaFields, PayloadFields}}

AttrLoadFileLoaded == LoadFileLoaded(AttrCards)

AttrUpdateCard ==
    \E id \in IdInputs, u \in PayloadInputs :
        Mutate(AttrOps, "updateCard", id, "", -1, UpdateCard(cards, id, u))

AttrUpdateCardAttribute ==
    \E id \in IdInputs, d \in DisplayAttributes, s \in SemanticAttributes :
        Mutate(AttrOps, "updateCardAttribute", id, << d, s >>, -1,
               UpdateCardAttribute(cards, id, d, s))

NextAttr ==
    \/ OnLoadFileBegin
    \/ AttrLoadFileLoaded
    \/ OnLoadFileFailed
    \/ AttrUpdateCard
    \/ AttrUpdateCardAttribute

SpecAttr == Init /\ [][NextAttr]_vars

\* The payload fields that belong to a pair of attributes.
FieldsOfAttributes(d, s) ==
    CASE d = "main" /\ s = "figure" -> FigureFields
      [] d = "main" /\ s = "table" -> TableFields
      [] d = "main" /\ s = "test" -> TestFields
      [] d = "main" /\ s = "question" -> QaFields
      [] OTHER -> {}

\* C22: a successful updateAttribute(id, d, s) leaves the card with
\* displayAttribute d and semanticAttribute s, with the payload fields of the
\* pair (d, s) as they were, and with every other payload field undefined.
C22_UpdateAttributeClearsPayload ==
    (last.op = "updateCardAttribute" /\ last.ok) =>
        LET before == GetCard(last.pre, last.id)
            after == GetCard(cards, last.id)
        IN /\ after.displayAttribute = last.dir[1]
           /\ after.semanticAttribute = last.dir[2]
           /\ \A f \in PayloadFields :
                 after[f] = IF f \in FieldsOfAttributes(last.dir[1], last.dir[2])
                            THEN before[f] ELSE Undefined

C22_Witness ==
    /\ last.op = "updateCardAttribute" /\ last.ok
    /\ last.dir = << "main", "test" >>
    /\ \A f \in PayloadFields : GetCard(last.pre, last.id)[f] = "v"
    /\ GetCard(cards, last.id).testStep = "v"
    /\ GetCard(cards, last.id).figureId = Undefined

\* The semantic attributes the policy table allows for a display attribute.
PolicyTable(d) ==
    IF d = "main" THEN {"text", "figure", "table", "test", "question"} ELSE {"none"}

\* C23: in every reachable state the semanticAttribute of every card is one
\* the policy table allows for the card's displayAttribute.
C23_AttributePairAllowed ==
    \A k \in 1..Len(cards) : cards[k].semanticAttribute \in PolicyTable(cards[k].displayAttribute)

\* C24: updateCard, updateCardAttribute, indentCard, outdentCard, moveCard and
\* moveCardToPosition with an id that is not in the store return the not-found
\* result and leave the store as it was.
C24_UnknownIdRefused ==
    (last.op \in Mutations /\ ~HasCard(last.pre, last.id))
        => (~last.ok /\ cards = last.pre)

C24_Witness ==
    /\ last.op \in {"indentCard", "moveCard", "moveCardToPosition"} /\ ~last.ok
    /\ ~HasCard(last.pre, last.id)
    /\ Len(cards) > 1
    /\ \E k \in 1..Len(cards) : cards[k].hierarchyLevel > 1

\* The store the listeners saw at the last notification of a successful call:
\* C25: after a successful mutating call the store is the store the listeners
\* saw at the call's last notification: nothing was written after it.
C25_NotifiedAfterLastWrite ==
    (last.op \in Mutations /\ last.ok)
        => cards = LastNotified(last.op, last.pre, last.id, cards)

\* ------------------------------------------------------- loading documents
\* A text is the sequence of the pieces that split(/\n\s*\n/) cuts it into.
\* cleanParagraph(paragraph) on the pieces the model uses.
CleanParagraph(paragraph) == Trim(paragraph)

\* Mutant of SplitIntoParagraphs: the empty pieces are counted in the positions.
SplitIntoParagraphsCountingEmpty(text) ==
    LET cleaned == [k \in 1..Len(text) |-> [content |-> CleanParagraph(text[k]),
                                            position |-> k - 1]]
    IN SelectSeq(cleaned, LAMBDA c : c.content # "")

\* TextProcessor.splitIntoParagraphs(text): the non-empty cleaned pieces,
\* numbered from 0 in the order of the text.
SplitIntoParagraphs(text) ==
    LET cleaned == [k \in 1..Len(text) |-> CleanParagraph(text[k])]
        kept == SelectSeq(cleaned, LAMBDA c : c # "")
    IN [k \in 1..Len(kept) |-> [content |-> kept[k], position |-> k - 1]]

\* paragraphs.forEach(paragraph => createCard(paragraph.content, paragraph.position))
RECURSIVE CreateEachParagraph(_, _, _, _)
CreateEachParagraph(cs, paragraphs, k, first) ==
    IF k > Len(paragraphs) THEN cs
    ELSE CreateEachParagraph(
             CreateCard(cs, first + k - 1, paragraphs[k].content, paragraphs[k].position),
             paragraphs, k + 1, first)

\* The texts a user loads: none of them is the empty string, which loadFile
\* refuses.
TextInputs ==
    {<< " " >>, << "a" >>, << " ", "a" >>, << "a", "b" >>,
     << " q ", " ", "a" >>, << "a", "b", "a" >>}

\* loadFile up to its await, as OnLoadFileBegin, with LoadLoads loads.
LoadTextBegin ==
    /\ pending = "none"
    /\ loads < LoadLoads
    /\ undoStack' = << >>
    /\ redoStack' = << >>
    /\ pending' = "file"
    /\ loads' = loads + 1
    /\ beforeLoad' = [cards |-> cards, undoStack |-> undoStack, redoStack |-> redoStack]
    /\ last' = Record("loadFileBegin", NoId, "", -1, TRUE)
    /\ UNCHANGED << cards, nextId, ops, savedFiles, currentFile, stateCards >>

\* loadFile after the await on the text: clear(), splitIntoParagraphs, and
\* createCard for each paragraph.  The text is recorded in `dir` of `last`.
LoadTextLoaded ==
    \E text \in TextInputs :
        LET paragraphs == SplitIntoParagraphs(text)
        IN /\ pending = "file"
           /\ cards' = CreateEachParagraph(<< >>, paragraphs, 1, nextId)
           /\ stateCards' = UpdateCardsList(CreateEachParagraph(<< >>, paragraphs, 1, nextId))
           /\ nextId' = nextId + Len(paragraphs)
           /\ pending' = "none"
           /\ currentFile' = "file"
           /\ UNCHANGED beforeLoad
           /\ last' = Record("loadFile", NoId, text, Len(paragraphs), TRUE)
           /\ UNCHANGED << undoStack, redoStack, ops, loads, savedFiles >>

LoadIndentCard ==
    \E id \in IdInputs :
        Mutate(LoadOps, "indentCard", id, "", -1, IndentCard(cards, id))

LoadMoveCard ==
    \E id \in IdInputs, dir \in {"up", "down"} :
        Mutate(LoadOps, "moveCard", id, dir, -1, MoveCard(cards, id, dir))

NextLoad ==
    \/ LoadTextBegin
    \/ LoadTextLoaded
    \/ OnLoadFileFailed
    \/ LoadIndentCard
    \/ LoadMoveCard

SpecLoad == Init /\ [][NextLoad]_vars

\* The non-empty paragraphs of a text, in the order of the text.
NonEmptyParagraphs(text) ==
    SelectSeq(text, LAMBDA piece : piece \notin {"", " "})

\* C26: after loading a text with N non-empty paragraphs the store holds
\* exactly N cards, in paragraph order, the k-th with the k-th paragraph as
\* content, hierarchyLevel 1, no parentId, displayOrder = position = k - 1,
\* and none of them is a card of the store before the load.
C26_LoadTextMakesFlatCards ==
    (last.op = "loadFile" /\ last.ok) =>
        LET paragraphs == NonEmptyParagraphs(last.dir)
        IN /\ Len(cards) = Len(paragraphs)
           /\ \A k \in 1..Len(cards) :
                 /\ cards[k].content = Trim(paragraphs[k])
                 /\ cards[k].hierarchyLevel = 1
                 /\ cards[k].parentId = NoId
                 /\ cards[k].displayOrder = k - 1
                 /\ cards[k].position = k - 1
                 /\ ~HasCard(last.pre, cards[k].id)
           /\ \A j, k \in 1..Len(cards) : j # k => cards[j].id # cards[k].id

C26_Witness ==
    /\ last.op = "loadFile" /\ last.ok
    /\ last.dir = << " q ", " ", "a" >>
    /\ Len(cards) = 2
    /\ Len(last.pre) = 3
    /\ \E k \in 1..Len(last.pre) :
          last.pre[k].hierarchyLevel > 1 /\ last.pre[k].displayOrder # last.pre[k].position

\* ------------------------------------------------------ saving and restoring
\* SAVE_DATA_VERSION
SaveDataVersion == "1.2.0"

\* The format versions, in the order in which their strings compare.
Versions == << "1.0.0", "1.1.0", "1.2.0", "1.3.0", "1.4.0", "1.5.0" >>

VersionRank(v) == CHOOSE k \in 1..Len(Versions) : Versions[k] = v

\* data.version === since || data.version > before
VersionSince(version, since, before) ==
    version = since \/ VersionRank(version) > VersionRank(before)

\* Array.prototype.sort((a, b) => a.position - b.position): stable.
RECURSIVE InsertSortedByPosition(_, _)
InsertSortedByPosition(s, c) ==
    IF s = << >> THEN << c >>
    ELSE IF s[Len(s)].position <= c.position THEN Append(s, c)
    ELSE Append(InsertSortedByPosition(SubSeq(s, 1, Len(s) - 1), c), s[Len(s)])

RECURSIVE SortByPositionUpTo(_, _)
SortByPositionUpTo(s, n) ==
    IF n = 0 THEN << >>
    ELSE InsertSortedByPosition(SortByPositionUpTo(s, n - 1), s[n])

\* getAllCards({ sortOrder: 'position', sortDirection: 'asc' })
GetAllCardsByPosition(cs) == SortByPositionUpTo(cs, Len(cs))

\* JSON.stringify then JSON.parse of a card: the fields that are undefined
\* are not written, so the parsed object lacks them.  The dates, which the
\* model does not hold, are always written.
JsonOfCard(card) ==
    LET written == {f \in DOMAIN card :
                       IF f \in PayloadFields THEN card[f] # Undefined
                       ELSE IF f = "parentId" THEN card.parentId # NoId
                       ELSE TRUE}
    IN [f \in written |-> card[f]]

\* SaveDataManager.createSaveData(originalFile, cards), as the file holds it:
\* every field of every card, in the order of the list.
CreateSaveData(originalFile, list) ==
    [version |-> SaveDataVersion,
     originalFile |-> originalFile,
     cards |-> [k \in 1..Len(list) |-> JsonOfCard(list[k])]]

\* The fields of a card of the file that loadJsonFile hands to
\* createCardFromData: displayOrder and originalPosition are not among them.
LoadedFields == {"id", "content", "position", "status", "originalContent", "hasChanges",
                 "displayAttribute", "semanticAttribute", "hierarchyLevel", "parentId"}
                    \cup PayloadFields

\* The object literal loadJsonFile builds from a card of the file.
CardDataOf(jsonCard) ==
    [f \in DOMAIN jsonCard \cap LoadedFields |-> jsonCard[f]]

\* data.cards.forEach(cardData => cardManager.createCardFromData({...}))
RECURSIVE CreateEachFromData(_, _, _, _)
CreateEachFromData(cs, jsonCards, k, fresh) ==
    IF k > Len(jsonCards) THEN cs
    ELSE CreateEachFromData(CreateCardFromData(cs, CardDataOf(jsonCards[k]), fresh),
                            jsonCards, k + 1, fresh)

\* The errors validateSaveData reports for card `index` of the document, in
\* the order of the checks.  The dates are taken to be present.
CardErrors(data, index) ==
    LET card == data.cards[index]
        has(f) == f \in DOMAIN card
        idError == IF ~has("id") \/ card.id = NoId THEN << "id" >> ELSE << >>
        positionError == IF ~has("position") THEN << "position" >> ELSE << >>
        statusError ==
            IF ~has("status") \/ card.status \notin Statuses THEN << "status" >> ELSE << >>
        displayError ==
            IF /\ VersionSince(data.version, "1.3.0", "1.2.0")
               /\ has("displayAttribute")
               /\ card.displayAttribute \notin DisplayAttributes
            THEN << "displayAttribute" >> ELSE << >>
        semanticError ==
            IF /\ VersionSince(data.version, "1.3.0", "1.2.0")
               /\ has("semanticAttribute")
               /\ card.semanticAttribute \notin SemanticAttributes
            THEN << "semanticAttribute" >> ELSE << >>
        levelError ==
            IF /\ VersionSince(data.version, "1.4.0", "1.3.0")
               /\ (~has("hierarchyLevel") \/ card.hierarchyLevel < 1)
            THEN << "hierarchyLevel" >> ELSE << >>
        parentError ==
            IF ~VersionSince(data.version, "1.4.0", "1.3.0") THEN << >>
            ELSE IF has("parentId") /\ card.parentId # NoId
            THEN IF \E k \in 1..Len(data.cards) :
                        "id" \in DOMAIN data.cards[k] /\ data.cards[k].id = card.parentId
                 THEN << >> ELSE << "parentExists" >>
            ELSE IF has("hierarchyLevel") /\ card.hierarchyLevel > 1
            THEN << "parentId" >> ELSE << >>
    IN idError \o positionError \o statusError \o displayError \o semanticError
          \o levelError \o parentError

RECURSIVE ErrorsFrom(_, _)
ErrorsFrom(data, index) ==
    IF index > Len(data.cards) THEN << >>
    ELSE [k \in 1..Len(CardErrors(data, index)) |-> << index, CardErrors(data, index)[k] >>]
            \o ErrorsFrom(data, index + 1)

\* SaveDataManager.validateSaveData(data) on a document that has its
\* version, originalFile, timestamp and cards array.
ValidateSaveData(data) ==
    [isValid |-> ErrorsFrom(data, 1) = << >>, errors |-> ErrorsFrom(data, 1)]

\* A card of a document written by hand or by another version: no payload,
\* no displayOrder, and no parentId when `parentId` is NoId.
DocumentCard(id, position, hierarchyLevel, parentId) ==
    LET base == [id |-> id, position |-> position, content |-> "p",
                 originalContent |-> "p", hasChanges |-> FALSE,
                 status |-> "unprocessed", displayAttribute |-> "main",
                 semanticAttribute |-> "text", hierarchyLevel |-> hierarchyLevel]
    IN IF parentId = NoId THEN base ELSE base @@ [parentId |-> parentId]

Document(version, cardList) ==
    [version |-> version, originalFile |-> "file", cards |-> cardList]

\* The documents a user opens that saveJson of this run did not write: for
\* the format versions before and after the hierarchy fields, a well-formed
\* two-level document, a child without parentId, a parentId that no card
\* has, a card that is its own parent, and a card with an unknown status.
DocumentInputs ==
    {Document(v, << DocumentCard(1, 0, 1, NoId), DocumentCard(2, 1, 2, 1) >>) :
        v \in {"1.3.0", "1.4.0"}}
    \cup {Document(v, << DocumentCard(1, 0, 1, NoId), DocumentCard(2, 1, 2, NoId) >>) :
        v \in {"1.3.0", "1.4.0"}}
    \cup {Document(v, << DocumentCard(1, 0, 1, NoId), DocumentCard(2, 1, 2, 3) >>) :
        v \in {"1.3.0", "1.4.0"}}
    \cup {Document("1.4.0", << DocumentCard(1, 0, 2, 1), DocumentCard(2, 1, 1, NoId) >>)}
    \cup {Document("1.4.0", << [DocumentCard(1, 0, 1, NoId) EXCEPT !.status = "done"] >>)}

\* saveJson(): nothing when no file is loaded; else the cards in position
\* order go into a new document.  The user confirms the save dialog.
SaveJson ==
    /\ Len(savedFiles) < JsonSaves
    /\ Settled
    /\ IF currentFile = ""
       THEN UNCHANGED savedFiles
       ELSE savedFiles' = Append(savedFiles,
                                 CreateSaveData(currentFile, GetAllCardsByPosition(cards)))
    /\ UNCHANGED beforeLoad
    /\ last' = Record("saveJson", NoId, "", -1, currentFile # "")
    /\ UNCHANGED << cards, undoStack, redoStack, pending, nextId, ops, loads, currentFile,
                    stateCards >>

\* loadJsonFile up to its await: both stacks are emptied before the file is
\* read.
LoadJsonBegin ==
    /\ pending = "none"
    /\ loads < LoadLoads
    /\ undoStack' = << >>
    /\ redoStack' = << >>
    /\ pending' = "json"
    /\ loads' = loads + 1
    /\ beforeLoad' = [cards |-> cards, undoStack |-> undoStack, redoStack |-> redoStack]
    /\ last' = Record("loadJsonFileBegin", NoId, "", -1, TRUE)
    /\ UNCHANGED << cards, nextId, ops, savedFiles, currentFile, stateCards >>

\* The set of the elements of a sequence.
Range(s) == {s[k] : k \in 1..Len(s)}

\* loadJsonFile after the await on a document that was read: parseSaveData,
\* and when it is valid clear(), createCardFromData for each card of the
\* document, and the document's original file becomes the current file.  An
\* invalid document is thrown out before the store is touched.  The document
\* is recorded in `dir` of `last`, the number of errors in `target`.
LoadJsonLoadedFrom(documents) ==
    \E data \in documents :
        LET validation == ValidateSaveData(data)
        IN /\ pending = "json"
           /\ pending' = "none"
           /\ IF validation.isValid
              THEN /\ cards' = CreateEachFromData(<< >>, data.cards, 1, nextId)
                   /\ stateCards' = UpdateCardsList(CreateEachFromData(<< >>, data.cards, 1, nextId))
                   /\ currentFile' = data.originalFile
              ELSE UNCHANGED << cards, currentFile, stateCards >>
           /\ UNCHANGED beforeLoad
           /\ last' = Record("loadJsonFile", NoId, data, Len(validation.errors),
                             validation.isValid)
           /\ UNCHANGED << undoStack, redoStack, nextId, ops, loads, savedFiles >>

\* The documents read are those saveJson wrote and those of DocumentInputs.
LoadJsonLoaded == LoadJsonLoadedFrom(Range(savedFiles) \cup DocumentInputs)

\* loadJsonFile after the await, the file unreadable or not JSON.
LoadJsonFailed ==
    /\ pending = "json"
    /\ pending' = "none"
    /\ UNCHANGED beforeLoad
    /\ last' = Record("loadJsonFile", NoId, "", -1, FALSE)
    /\ UNCHANGED << cards, undoStack, redoStack, nextId, ops, loads, savedFiles,
                    currentFile, stateCards >>

NextJson ==
    \/ LoadTextBegin
    \/ LoadTextLoaded
    \/ OnLoadFileFailed
    \/ LoadIndentCard
    \/ LoadMoveCard
    \/ SaveJson
    \/ LoadJsonBegin
    \/ LoadJsonLoaded
    \/ LoadJsonFailed

SpecJson == Init /\ [][NextJson]_vars

\* Every card of the store is in the document, and every card of the
\* document is in the store, with the same displayOrder, hierarchyLevel and
\* parentId.
SameOrderAndHierarchy(cs, data) ==
    /\ Len(cs) = Len(data.cards)
    /\ \A k \in 1..Len(data.cards) :
          LET saved == data.cards[k]
          IN /\ HasCard(cs, saved.id)
             /\ GetCard(cs, saved.id).displayOrder = saved.displayOrder
             /\ GetCard(cs, saved.id).hierarchyLevel = saved.hierarchyLevel
             /\ GetCard(cs, saved.id).parentId = Field(saved, "parentId", NoId)

\* C27: the document saveJson writes holds every card of the store with its
\* displayOrder, hierarchyLevel and parentId, and after loadJsonFile has
\* loaded a document that saveJson wrote, the store holds every card of the
\* document with the displayOrder, hierarchyLevel and parentId saved in it.
C27_SaveLoadRoundTrip ==
    /\ (last.op = "saveJson" /\ last.ok)
          => SameOrderAndHierarchy(cards, savedFiles[Len(savedFiles)])
    /\ (last.op = "loadJsonFile" /\ last.ok /\ last.dir \in Range(savedFiles))
          => SameOrderAndHierarchy(cards, last.dir)

\* The violations of the hierarchy rules in a document: << k, "parentId" >>
\* when card k has hierarchyLevel > 1 and no parentId, << k, "parentExists" >>
\* when its parentId is the id of no card of the document.
HierarchyViolations(data) ==
    {<< k, "parentId" >> : k \in {j \in 1..Len(data.cards) :
        /\ "parentId" \notin DOMAIN data.cards[j]
        /\ data.cards[j].hierarchyLevel > 1}}
    \cup {<< k, "parentExists" >> : k \in {j \in 1..Len(data.cards) :
        /\ "parentId" \in DOMAIN data.cards[j]
        /\ \A i \in 1..Len(data.cards) : data.cards[i].id # data.cards[j].parentId}}

\* C28: a document in which some card has hierarchyLevel > 1 and no
\* parentId, or a parentId that is the id of no card of the document, is
\* rejected by the validation of loadJsonFile, with one error for each such
\* violation.
C28_HierarchyViolationsRejected ==
    (last.op = "loadJsonFile" /\ last.target >= 0) =>
        \A violation \in HierarchyViolations(last.dir) :
            /\ ~last.ok
            /\ \E k \in 1..Len(ValidateSaveData(last.dir).errors) :
                  ValidateSaveData(last.dir).errors[k] = violation

\* No card is twice in the list.
EachAtMostOnce(list) ==
    \A j, k \in 1..Len(list) : j # k => list[j].id # list[k].id

\* C29: for every card of the store, getDescendantCards returns a list in
\* which each card is at most once, whatever the parentId links of the store
\* are.
C29_DescendantsAtMostOnce ==
    \A k \in 1..Len(cards) : EachAtMostOnce(GetDescendantCards(cards, cards[k].id))

\* The cards of both stores are the same, each with the same displayOrder.
SameDisplayOrder(before, after) ==
    /\ Len(before) = Len(after)
    /\ \A k \in 1..Len(before) :
          /\ HasCard(after, before[k].id)
          /\ GetCard(after, before[k].id).displayOrder = before[k].displayOrder

\* C30: indentCard and outdentCard leave the displayOrder of every card as it
\* was, and so do updateCard and updateCardAttribute: of the calls that
\* change cards, only moveCard and moveCardToPosition change a displayOrder.
C30_IndentOutdentKeepDisplayOrder ==
    (last.op \in Mutations \ {"moveCard", "moveCardToPosition"})
        => SameDisplayOrder(last.pre, cards)

\* An indentCard that changed the level of a card other than its own.
C30_Witness ==
    /\ last.op = "indentCard"
    /\ last.ok
    /\ Len(cards) >= 3
    /\ \E k \in 1..Len(last.pre) :
          /\ last.pre[k].id # last.id
          /\ GetCard(cards, last.pre[k].id).hierarchyLevel # last.pre[k].hierarchyLevel

\* C31: after a successful outdentCard(id), every card that was a descendant
\* of id before the call is a descendant of id, has the parentId it had, and
\* has a hierarchyLevel one less than before.
C31_OutdentShiftsSubtree ==
    (last.op = "outdentCard" /\ last.ok) =>
        \A d \in DescendantIds(last.pre, last.id) :
            /\ d \in DescendantIds(cards, last.id)
            /\ ParentOf(cards, d) = ParentOf(last.pre, d)
            /\ LevelOf(cards, d) = LevelOf(last.pre, d) - 1

\* C32: after a successful moveCard or moveCardToPosition, every card that
\* was a descendant of the moved card is as many levels below it as before.
C32_MoveKeepsRelativeDepth ==
    (last.op \in {"moveCard", "moveCardToPosition"} /\ last.ok) =>
        \A d \in DescendantIds(last.pre, last.id) :
            LevelOf(cards, d) - LevelOf(cards, last.id)
                = LevelOf(last.pre, d) - LevelOf(last.pre, last.id)

\* The cards outside the set are in the same order in both stores.
SameOrderOutside(before, after, ids) ==
    \A a, b \in IdsOf(before) \ ids :
        (OrderOf(before, a) < OrderOf(before, b)) => (OrderOf(after, a) < OrderOf(after, b))

\* C33: after a successful moveCardToPosition(id, t) of a card at display
\* index s whose block (the card and its descendants) has g cards, the card
\* has displayOrder t when t <= s and t - g when t > s, and the cards outside
\* the block are in the order they were in.
C33_MoveToPositionLandsAtTarget ==
    (last.op = "moveCardToPosition" /\ last.ok) =>
        LET s == IndexOf(last.pre, last.id)
            g == Cardinality(BlockOf(last.pre, last.id))
            t == last.target
        IN /\ OrderOf(cards, last.id) = IF t <= s THEN t ELSE t - g
           /\ SameOrderOutside(last.pre, cards, BlockOf(last.pre, last.id))

\* The four structural invariants: order permutation, level/parent
\* consistency, subtree contiguity, no cycles.
StructurallySound(cs) ==
    /\ OrderIsPermutation(cs)
    /\ LevelMatchesParent(cs) /\ ParentIsOneLevelUp(cs)
    /\ SubtreesContiguous(cs)
    /\ NoCycles(cs)

\* C34: a successful moveCard on a store that satisfies the four structural
\* invariants leaves a store that satisfies them.
C34_MoveCardKeepsInvariants ==
    (last.op = "moveCard" /\ last.ok /\ StructurallySound(last.pre))
        => StructurallySound(cards)

\* --------------------------------------------------- well-formed documents
\* The level sequences of the forests of n cards in display order: the first
\* card is a root and no card is more than one level below its predecessor.
LevelSequences(n) ==
    {levels \in [1..n -> 1..n] :
        /\ levels[1] = 1
        /\ \A k \in 2..n : levels[k] <= levels[k - 1] + 1}

\* The nearest card before card k that is one level above it.
ParentInLevels(levels, k) ==
    CHOOSE j \in 1..(k - 1) :
        /\ levels[j] = levels[k] - 1
        /\ \A i \in (j + 1)..(k - 1) : levels[i] # levels[k] - 1

\* The documents of format version 1.4.0 with SoundCards cards, ids 1.. in
\* position order, that hold such a forest.
SoundDocuments ==
    {Document("1.4.0",
              [k \in 1..SoundCards |->
                  DocumentCard(k, k - 1, levels[k],
                               IF levels[k] = 1 THEN NoId ELSE ParentInLevels(levels, k))]) :
        levels \in LevelSequences(SoundCards)}

SoundLoadJsonLoaded == LoadJsonLoadedFrom(SoundDocuments)

SoundMoveCard ==
    \E id \in 1..SoundCards, dir \in {"up", "down"} :
        Mutate(SoundOps, "moveCard", id, dir, -1, MoveCard(cards, id, dir))

NextSound ==
    \/ LoadJsonBegin
    \/ SoundLoadJsonLoaded
    \/ LoadJsonFailed
    \/ SoundMoveCard

SpecSound == Init /\ [][NextSound]_vars

\* A moveCard on a sound store that moved a card with a descendant to another
\* level.
C34_Witness ==
    /\ last.op = "moveCard"
    /\ last.ok
    /\ StructurallySound(last.pre)
    /\ DescendantIds(last.pre, last.id) # {}
    /\ LevelOf(cards, last.id) # LevelOf(last.pre, last.id)

\* C35: the two stacks together never hold more than UndoLimit snapshots, and
\* a redo that acts finds fewer than UndoLimit snapshots on the undo stack, so
\* that its push never overflows.
C35_StacksTogetherCapped ==
    /\ Len(undoStack) + Len(redoStack) <= UndoLimit
    /\ (last.op = "redo" /\ last.ok) => last.undoLen < UndoLimit

\* A redo that filled the undo stack to its limit.
C35_Witness ==
    /\ last.op = "redo"
    /\ last.ok
    /\ Len(undoStack) = UndoLimit

\* C36: a mutating call whose store operation fails leaves the undo stack and
\* the redo stack as they were.
C36_FailedCallKeepsStacks ==
    [][(last'.op \in Mutations /\ ~last'.ok)
          => UNCHANGED << undoStack, redoStack >>]_vars

\* A failed mutating call after which a redo is still available.
C36_Witness ==
    /\ last.op \in Mutations
    /\ ~last.ok
    /\ last.redoLen > 0
    /\ Len(redoStack) = last.redoLen
    /\ Len(undoStack) = last.undoLen

\* C37: after every call that has completed, the visible card list is the
\* cards of the store in display order (no filter is set and no card is
\* collapsed, so every card passes).
C37_VisibleListIsStore ==
    (last.op \in Mutations \cup {"undo", "redo"}) => stateCards = GetAllCards(cards)

\* Every snapshot of the stack holds the cards of the store: no call but a
\* load adds or removes a card, so a snapshot taken from the loaded document
\* has the ids of the store.
TakenFromStore(stack, cs) ==
    \A k \in 1..Len(stack) : IdsOf(stack[k]) = IdsOf(cs)

\* C38: when no load is in flight, every snapshot on the undo stack and on
\* the redo stack was taken from the document that is loaded.
C38_SnapshotsOfLoadedDocument ==
    pending = "none" => (TakenFromStore(undoStack, cards) /\ TakenFromStore(redoStack, cards))

\* C39: a loadFile or loadJsonFile that fails, with no other call made while
\* it awaited the file, leaves the store and both stacks as they were when it
\* was called.
C39_FailedLoadChangesNothing ==
    (/\ last.op \in {"loadFile", "loadJsonFile"}
     /\ ~last.ok
     /\ last.prevOp \in {"loadFileBegin", "loadJsonFileBegin"})
        => /\ cards = beforeLoad.cards
           /\ undoStack = beforeLoad.undoStack
           /\ redoStack = beforeLoad.redoStack

====
